---- MODULE Spec2Model ----
(***************************************************************************)
(* Statement retrieval of indra_cogex: the three endpoints of              *)
(* apps/search/search.py (ORA, signed, metabolite), the retrieval          *)
(* functions behind them, the graph store they query, and the text         *)
(* grounding endpoint.                                                     *)
(*                                                                         *)
(* A Python str is modelled by the list of its parts s.split(':'):         *)
(* "HGNC:1" is <<"HGNC", "1">>, "TP53" is <<"TP53">>, "" is <<"">>.         *)
(* None (an absent request argument) is the list with no part.             *)
(* Belief scores are tenths (0.5 is 5).                                    *)
(***************************************************************************)
EXTENDS Integers, Sequences, FiniteSets, TLC

VARIABLES
    pc,              \* position of the invocation
    mode,            \* "none", "ora", "signed", "metabolite", "discrete", "ground"
    invalid,         \* history: the request lacked a target, entities, or had a non-number
    unresolvable,    \* history: an entity reference of the request has no NAMESPACE:ID form
    args,            \* arguments of the retrieval function
    params,          \* locals of the retrieval function (normalized ids, rel_types)
    graph,           \* the store's paths at the node the invocation asks for
    queries,         \* every store / evidence-store call issued, in order
    flattened_rels,  \* search.py: flattened_rels
    stmts,           \* search.py: stmts
    evidence_counts, \* search.py: evidence_counts
    response,        \* what the endpoint returned (a direct call: what the function
                     \* returned, or the exception it raised as a 500)
    grounding        \* gilda_ground: what each grounding attempt did, and its result

vars == <<pc, mode, invalid, unresolvable, args, params, graph, queries,
          flattened_rels, stmts, evidence_counts, response, grounding>>

\* ------------------------------------------------------------------ bounds
MaxPaths == 3   \* paths the store holds at the target node
MaxEv == 2      \* largest minimum_evidence a request states

\* ----------------------------------------------------------------- strings
None == <<>>

Range(s) == {s[i] : i \in 1..Len(s)}

Min(a, b) == IF a <= b THEN a ELSE b

\* str.lower() of one colon-free part
LowerTok(t) ==
    CASE t = "HGNC" -> "hgnc"
      [] t = "MESH" -> "mesh"
      [] t = "FPLX" -> "fplx"
      [] t = "CHEBI" -> "chebi"
      [] t = "GO" -> "go"
      [] t = "ECCODE" -> "eccode"
      [] t = "OTHER" -> "other"
      [] t = "D1" -> "d1"
      [] t = "TP53" -> "tp53"
      [] t = "True" -> "true"
      [] OTHER -> t

\* str.lower() of a whole string
lower(s) == [i \in 1..Len(s) |-> LowerTok(s[i])]

\* Python truthiness of an optional str: None and "" are falsy
Truthy(s) == s # None /\ s # <<"">>

\* dict.get(key, default)
Get(data, key, default) == IF key \in DOMAIN data THEN data[key] ELSE default

\* representation.norm_id(db_ns, db_id): the canonical lowercase namespace:id
norm_id(db_ns, db_id) == <<LowerTok(db_ns), LowerTok(db_id)>>

\* ------------------------------------------------------------------- store
T0 == <<"fplx", "d1">>
G1 == <<"hgnc", "1">>
G2 == <<"hgnc", "2">>
M1 == <<"chebi", "1">>

Path(g, st, lab, props) ==
    [gene |-> g, obsolete |-> FALSE, target |-> T0, start |-> st,
     label |-> lab, props |-> props]

Props(h, ty, b, ev) ==
    [stmt_hash |-> h, stmt_type |-> ty, belief |-> b, evidence_count |-> ev]

\* The paths the store may hold at T0, in the store's scan order.  Relations
\* of one statement share its hash; an isa edge carries no statement at all.
PathUniverse == <<
    Path(G1, "target", "indra_rel",
         [stmt_type |-> "IncreaseAmount", belief |-> 9, evidence_count |-> 2]),
    Path(G1, "gene",   "indra_rel", Props("h1", "Inhibition", 9, 2)),
    Path(G1, "target", "indra_rel", Props("h1", "Activation", 9, 2)),
    Path(G2, "target", "indra_rel", Props("h2", "Complex", 9, 1)),
    Path(G2, "gene",   "indra_rel", Props("h1", "Activation", 5, 2)),
    Path(G2, "target", "indra_rel", Props("h2", "Inhibition", 9, 1)),
    Path(G1, "gene",   "isa", [name |-> "isa"]),
    Path(M1, "gene",   "indra_rel", Props("h1", "Activation", 9, 2)),
    Path(M1, "target", "indra_rel", Props("h1", "Inhibition", 9, 2)),
    Path(M1, "gene",   "indra_rel", Props("h2", "DecreaseAmount", 9, 1)) >>

RECURSIVE Pick(_, _)
\* the paths of PathUniverse whose position is in S, in scan order
Pick(S, i) ==
    IF i > Len(PathUniverse) THEN <<>>
    ELSE (IF i \in S THEN <<PathUniverse[i]>> ELSE <<>>) \o Pick(S, i + 1)

Graphs ==
    {Pick(S, 1) : S \in {X \in SUBSET (1..Len(PathUniverse)) : Cardinality(X) <= MaxPaths}}

\* what the store holds at the node with this id
Neighbourhood(target_id) == IF target_id = T0 THEN Graphs ELSE {<<>>}

\* Cypher: a comparison with a missing property is null, and WHERE drops it
PropGt(p, key, x) == key \in DOMAIN p.props /\ p.props[key] > x
PropGe(p, key, x) == key \in DOMAIN p.props /\ p.props[key] >= x
PropIn(p, key, S) == key \in DOMAIN p.props /\ p.props[key] \in S

\* r.stmt_hash as a grouping key: null groups with null
HashKey(p) == Get(p.props, "stmt_hash", "None")

RECURSIVE FirstSeen(_, _)
\* the positions of s that hold the first occurrence of their key
FirstSeen(keys, i) ==
    IF i > Len(keys) THEN <<>>
    ELSE (IF \E j \in 1..(i - 1) : keys[j] = keys[i] THEN <<>> ELSE <<i>>)
         \o FirstSeen(keys, i + 1)

\* Neo4jClient.neo4j_to_relation(path): one Relation per path, its data the
\* properties the path's relationship carries
neo4j_to_relation(p) ==
    [source_id |-> IF p.start = "gene" THEN p.gene ELSE p.target,
     target_id |-> IF p.start = "gene" THEN p.target ELSE p.gene,
     rel_type |-> p.label,
     data |-> p.props]

\* ----------------------------------------------------------- Cypher queries
\* get_ora_statements: the MATCH ... WHERE of the forward / downstream query
OraMatch(p, q) ==
    /\ p.target = q.target_id
    /\ p.start = (IF q.is_downstream THEN "gene" ELSE "target")
    /\ p.label \in q.rel_types
    /\ p.gene[1] = "hgnc"
    /\ ~p.obsolete
    /\ p.gene \in Range(q.genes)
    /\ (p.label # "indra_rel" \/ PropGt(p, "belief", q.minimum_belief))

\* WITH distinct r.stmt_hash AS hash, collect(p) as pp RETURN pp:
\* one row per distinct hash, its single column the paths of that hash
ora_query(g, q) ==
    LET matched == SelectSeq(g, LAMBDA p : OraMatch(p, q))
        keys == [i \in 1..Len(matched) |-> HashKey(matched[i])]
        firsts == FirstSeen(keys, 1)
    IN [k \in 1..Len(firsts) |->
           <<SelectSeq(matched, LAMBDA p : HashKey(p) = keys[firsts[k]])>>]

\* [client.neo4j_to_relation(i[0]) for rel in results for i in rel]
ora_flatten(results) ==
    [k \in 1..Len(results) |-> neo4j_to_relation(results[k][1][1])]

\* get_signed_statements: the query shared by both polarities
SignedMatch(p, q) ==
    /\ p.target = q.target_id
    /\ p.label \in q.rel_types
    /\ p.gene \in Range(q.gene_list)
    /\ PropGt(p, "belief", q.minimum_belief)
    /\ PropGe(p, "evidence_count", q.minimum_evidence)
    /\ ~p.obsolete
    /\ \/ p.start = "gene" /\ PropIn(p, "stmt_type", q.stmt_types_gene_to_target)
       \/ p.start = "target" /\ PropIn(p, "stmt_type", q.stmt_types_target_to_gene)

\* RETURN p: one row per matched path
signed_query(g, q) ==
    LET matched == SelectSeq(g, LAMBDA p : SignedMatch(p, q))
    IN [k \in 1..Len(matched) |-> <<matched[k]>>]

\* get_metabolite_statements: the main query
MetaboliteMatch(p, q) ==
    /\ p.label = "indra_rel"
    /\ p.target = q.target_id
    /\ p.gene \in Range(q.metabolite_list)
    /\ PropGt(p, "belief", q.minimum_belief)
    /\ PropGe(p, "evidence_count", q.minimum_evidence)
    /\ ~p.obsolete

metabolite_query(g, q) ==
    LET matched == SelectSeq(g, LAMBDA p : MetaboliteMatch(p, q))
    IN [k \in 1..Len(matched) |-> <<matched[k]>>]

\* the new relations put in front of the list
prepend_rels(rels, results) ==
    [k \in 1..Len(results) |-> neo4j_to_relation(results[k][1])] \o rels

\* for result in results: path = result[0]; rel = neo4j_to_relation(path);
\* flattened_rels.append(rel)
append_rels(rels, results) ==
    rels \o [k \in 1..Len(results) |-> neo4j_to_relation(results[k][1])]

\* ------------------------------------------------- assembly and the index
Statement(h) == [hash |-> h, evidence |-> "partial"]

RelHash(rel) == Get(rel.data, "stmt_hash", "None")

\* What the assembler does with a relation that carries no statement: the
\* specification leaves it open, so each outcome is explored.
MalformedPolicies == {"raise", "drop", "keep"}

\* representation.indra_stmts_from_relations(rels, deduplicate): one Statement
\* per relation; with deduplicate, one per distinct hash, in order of first
\* appearance
indra_stmts_from_relations(rels, deduplicate, policy) ==
    LET bad(r) == "stmt_hash" \notin DOMAIN r.data
        used == IF policy = "drop" THEN SelectSeq(rels, LAMBDA r : ~bad(r)) ELSE rels
        hashes == [i \in 1..Len(used) |-> RelHash(used[i])]
        keep == IF deduplicate THEN FirstSeen(hashes, 1)
                ELSE [i \in 1..Len(used) |-> i]
    IN [raised |-> policy = "raise" /\ \E i \in 1..Len(rels) : bad(rels[i]),
        stmts |-> [k \in 1..Len(keep) |-> Statement(hashes[keep[k]])]]

\* client.queries.enrich_statements(stmts): the same statements, each with
\* its complete evidence
enrich_statements(ss) == [i \in 1..Len(ss) |-> [ss[i] EXCEPT !.evidence = "full"]]

\* the index keyed by the relation's hash instead of the statement's
evidence_count_mapping_by_rel(rels, ss) ==
    LET n == Min(Len(rels), Len(ss))
        last(h) == CHOOSE i \in 1..n :
                      /\ RelHash(rels[i]) = h
                      /\ \A j \in 1..n : RelHash(rels[j]) = h => j <= i
    IN [h \in {RelHash(rels[i]) : i \in 1..n} |->
           Get(rels[last(h)].data, "evidence_count", 0)]

\* {stmt.get_hash(): rel.data.get("evidence_count", 0)
\*  for rel, stmt in zip(flattened_rels, stmts)}
evidence_count_mapping(rels, ss) ==
    LET n == Min(Len(rels), Len(ss))
        last(h) == CHOOSE i \in 1..n :
                      /\ ss[i].hash = h
                      /\ \A j \in 1..n : ss[j].hash = h => j <= i
    IN [h \in {ss[i].hash : i \in 1..n} |->
           Get(rels[last(h)].data, "evidence_count", 0)]

\* ------------------------------------------------------- request arguments
\* A numeric request argument as sent: absent, the empty string, a text that
\* is no number, or a number.
NumArg(kind, val) == [kind |-> kind, val |-> val]

EvidenceArgs ==
    {NumArg("absent", 0), NumArg("empty", 0), NumArg("bad", 0)}
        \cup {NumArg("num", n) : n \in 0..MaxEv}

BeliefArgs == {NumArg("absent", 0), NumArg("bad", 0), NumArg("num", 5)}

TargetArgs ==
    {None, <<"">>, <<"d1">>, <<"FPLX", "d1">>, <<"fplx", "d1">>, <<"MESH", "D1">>,
     <<"CHEBI", "d1">>, <<"HGNC", "d1">>, <<"GO", "d1">>, <<"ECCODE", "d1">>,
     <<"OTHER", "d1">>}

GeneLists ==
    {<<>>, <<<<"HGNC", "1">>>>, <<<<"hgnc", "1">>, <<"HGNC", "2">>>>,
     <<<<"HGNC", "1">>, <<"hgnc", "1">>>>, <<<<"HGNC", "1">>, <<"TP53">>>>}

NegativeGeneLists ==
    {<<>>, <<<<"HGNC", "2">>>>, <<<<"hgnc", "1">>, <<"HGNC", "2">>>>}

MetaboliteLists ==
    {<<>>, <<<<"CHEBI", "1">>>>, <<<<"CHEBI", "1">>, <<"water">>>>}

\* request.args.get("is_downstream", ""): absent is ""
DownstreamArgs == {<<"">>, <<"true">>, <<"True">>, <<"false">>}

\* the conversion with its ValueError swallowed
NumOr_unchecked(raw, d) ==
    [ok |-> TRUE, val |-> IF raw.kind = "num" THEN raw.val ELSE d]

\* int(request.args.get(k) or d), float(request.args.get(k) or d)
NumOr(raw, d) ==
    [ok |-> raw.kind # "bad", val |-> IF raw.kind = "num" THEN raw.val ELSE d]

\* int(request.args.get(k, d)), float(request.args.get(k, d))
NumDefault(raw, d) ==
    [ok |-> raw.kind \in {"absent", "num"},
     val |-> IF raw.kind = "num" THEN raw.val ELSE d]

\* history: what the request is, whatever the endpoint makes of it
InvalidRequest(target_id, entities, me, mb) ==
    \/ ~Truthy(target_id)
    \/ entities = <<>>
    \/ me.kind = "bad"
    \/ mb.kind = "bad"

Unresolvable(entities) == \E i \in 1..Len(entities) : Len(entities[i]) < 2

NoArgs ==
    [target_id |-> None, genes |-> <<>>, positive_genes |-> <<>>,
     negative_genes |-> <<>>, metabolites |-> <<>>, minimum_belief |-> 0,
     minimum_evidence |-> 0, is_downstream |-> FALSE, agent |-> None]

NoParams == [target_id |-> None]

Response(status, error, ss, counts) ==
    [status |-> status, error |-> error, stmts |-> ss, evidence_count |-> counts]

NoResponse == Response(0, "", <<>>, <<>>)

\* local / remote: what the attempt did ("none": not made); raised: an
\* exception left gilda_ground; result: what gilda_ground returned
NoGrounding == [local |-> "none", remote |-> "none", raised |-> FALSE, result |-> "none"]

Init ==
    /\ pc = "idle"
    /\ mode = "none"
    /\ invalid = FALSE
    /\ unresolvable = FALSE
    /\ args = NoArgs
    /\ params = NoParams
    /\ graph = <<>>
    /\ queries = <<>>
    /\ flattened_rels = <<>>
    /\ stmts = <<>>
    /\ evidence_counts = <<>>
    /\ response = NoResponse
    /\ grounding = NoGrounding

\* the endpoint returns an error response
Finish(status, error) ==
    /\ pc' = "done"
    /\ response' = Response(status, error, <<>>, <<>>)

\* the failed call is left to be issued again
QueryFailed_retry(errStatus) == pc' = pc /\ response' = response

\* query_tx raises: nothing in the retrieval function catches it, so the
\* invocation ends with the endpoint's error response
QueryFailed(errStatus) == Finish(errStatus, "StoreQueryFailed")

\* a store call, as logged
Call(name, q, ok) == [name |-> name, params |-> q, ok |-> ok]

\* the store's content becomes known with the first graph query
GraphAt(target_id) == IF queries = <<>> THEN Neighbourhood(target_id) ELSE {graph}

\* ---------------------------------------------------- get_ora_statements
\* normalized_genes = [norm_id('HGNC', gene.split(':')[1]) for gene in genes]
normalize_genes(genes) == [i \in 1..Len(genes) |-> norm_id("HGNC", genes[i][2])]

\* gene.split(':')[1] raises IndexError for a reference without a colon
split_raises(refs) == \E i \in 1..Len(refs) : Len(refs[i]) < 2

\* namespace / id_part / normalized_target / rel_types of get_ora_statements
ora_target(target_id) ==
    LET namespace == LowerTok(target_id[1])
        id_part == target_id[2]
    IN IF namespace = "mesh"
       THEN [target_id |-> <<"mesh", id_part>>, rel_types |-> {"indra_rel", "has_indication"}]
       ELSE IF namespace = "fplx"
       THEN [target_id |-> <<"fplx", id_part>>, rel_types |-> {"indra_rel", "isa"}]
       ELSE [target_id |-> lower(target_id), rel_types |-> {"indra_rel"}]

\* the downstream query never selected
ora_params_forward_only(a) ==
    LET t == ora_target(a.target_id)
    IN [target_id |-> t.target_id,
        genes |-> normalize_genes(a.genes),
        rel_types |-> t.rel_types,
        minimum_belief |-> a.minimum_belief,
        is_downstream |-> FALSE]

\* params of get_ora_statements, with the query's direction
ora_params(a) ==
    LET t == ora_target(a.target_id)
    IN [target_id |-> t.target_id,
        genes |-> normalize_genes(a.genes),
        rel_types |-> t.rel_types,
        minimum_belief |-> a.minimum_belief,
        is_downstream |-> a.is_downstream]

\* the filter keeping only the relations with exactly minimum_evidence
ora_evidence_filter_exact(rels, minimum_evidence) ==
    IF minimum_evidence # 0
    THEN SelectSeq(rels, LAMBDA r : Get(r.data, "evidence_count", 0) = minimum_evidence)
    ELSE rels

\* if minimum_evidence: keep the relations with evidence_count >= minimum_evidence
ora_evidence_filter(rels, minimum_evidence) ==
    IF minimum_evidence # 0
    THEN SelectSeq(rels, LAMBDA r : Get(r.data, "evidence_count", 0) >= minimum_evidence)
    ELSE rels

\* stmts = indra_stmts_from_relations(flattened_rels, deduplicate=True)
ora_stmts(rels, policy) == indra_stmts_from_relations(rels, TRUE, policy)

\* the relations are assembled; a failure ends the request with errStatus
Assembled(rels, r, errStatus) ==
    /\ flattened_rels' = rels
    /\ IF r.raised
       THEN Finish(errStatus, "KeyError") /\ stmts' = stmts
       ELSE stmts' = r.stmts /\ pc' = "enrich" /\ response' = response

\* search_ora_statements, up to the first store call of get_ora_statements
search_ora_statements ==
    /\ pc = "idle"
    /\ \E target_id \in TargetArgs, genes \in GeneLists, me \in EvidenceArgs,
          mb \in BeliefArgs, ds \in DownstreamArgs :
        LET minimum_evidence == NumOr(me, 2)
            minimum_belief == NumOr(mb, 0)
            a == [NoArgs EXCEPT !.target_id = target_id, !.genes = genes,
                                !.minimum_belief = minimum_belief.val,
                                !.minimum_evidence = minimum_evidence.val,
                                !.is_downstream = (lower(ds) = <<"true">>)]
        IN /\ mode' = "ora"
           /\ invalid' = InvalidRequest(target_id, genes, me, mb)
           /\ unresolvable' = Unresolvable(genes)
           /\ IF ~minimum_evidence.ok \/ ~minimum_belief.ok
              THEN Finish(400, "Invalid parameter values") /\ UNCHANGED <<args, params>>
              ELSE IF ~Truthy(target_id) \/ genes = <<>>
              THEN Finish(400, "target_id and genes are required")
                   /\ UNCHANGED <<args, params>>
              ELSE /\ args' = a
                   /\ IF split_raises(genes) \/ Len(target_id) < 2
                      THEN Finish(500, "IndexError") /\ params' = params
                      ELSE params' = ora_params(a) /\ pc' = "ora_query"
                           /\ response' = response
    /\ UNCHANGED <<graph, queries, flattened_rels, stmts, evidence_counts, grounding>>

\* results = client.query_tx(query, **params), then flattening, the evidence
\* filter and assembly
ora_query_tx ==
    /\ pc = "ora_query"
    /\ \E ok \in BOOLEAN :
        /\ queries' = Append(queries, Call("ora", params, ok))
        /\ IF ok
           THEN \E g \in GraphAt(params.target_id), policy \in MalformedPolicies :
                  LET rels == ora_evidence_filter(ora_flatten(ora_query(g, params)),
                                                  args.minimum_evidence)
                  IN graph' = g /\ Assembled(rels, ora_stmts(rels, policy), 500)
           ELSE QueryFailed(500)
                /\ UNCHANGED <<graph, flattened_rels, stmts>>
    /\ UNCHANGED <<mode, invalid, unresolvable, args, params, evidence_counts, grounding>>

\* stmts = enrich_statements(stmts, client=client); evidence_counts = {...};
\* return stmts, evidence_counts; the endpoint renders them
Enrich(errStatus) ==
    /\ pc = "enrich"
    /\ \E ok \in BOOLEAN :
        /\ queries' = Append(queries, Call("enrich", stmts, ok))
        /\ IF ok
           THEN /\ stmts' = enrich_statements(stmts)
                /\ evidence_counts' = evidence_count_mapping(flattened_rels, stmts')
                /\ pc' = "done"
                /\ response' = Response(200, "", stmts', evidence_counts')
           ELSE Finish(errStatus, "StoreUnavailable")
                /\ UNCHANGED <<stmts, evidence_counts>>
    /\ UNCHANGED <<mode, invalid, unresolvable, args, params, graph, flattened_rels,
                   grounding>>

ora_enrich == mode = "ora" /\ Enrich(500)

\* -------------------------------------------------- get_signed_statements
\* namespace / id_part / normalized_target / rel_types of get_signed_statements
signed_target(target_id) ==
    LET namespace == LowerTok(target_id[1])
        id_part == target_id[2]
    IN IF namespace = "chebi"
       THEN [target_id |-> <<"chebi", id_part>>, rel_types |-> {"indra_rel", "has_metabolite"}]
       ELSE IF namespace = "mesh"
       THEN [target_id |-> <<"mesh", id_part>>, rel_types |-> {"indra_rel", "has_indication"}]
       ELSE IF namespace = "hgnc"
       THEN [target_id |-> <<"hgnc", id_part>>, rel_types |-> {"indra_rel"}]
       ELSE IF namespace = "fplx"
       THEN [target_id |-> <<"fplx", id_part>>, rel_types |-> {"indra_rel", "isa"}]
       ELSE [target_id |-> lower(target_id), rel_types |-> {"indra_rel"}]

\* the locals of get_signed_statements before its first query
signed_locals(a) ==
    LET t == signed_target(a.target_id)
    IN [target_id |-> t.target_id,
        pos_genes |-> normalize_genes(a.positive_genes),
        neg_genes |-> normalize_genes(a.negative_genes),
        rel_types |-> t.rel_types,
        minimum_belief |-> a.minimum_belief,
        minimum_evidence |-> a.minimum_evidence]

\* the positive query with Complex left out of the target-to-gene types
pos_params_without_complex(l) ==
    [target_id |-> l.target_id,
     gene_list |-> l.pos_genes,
     rel_types |-> l.rel_types,
     minimum_belief |-> l.minimum_belief,
     minimum_evidence |-> l.minimum_evidence,
     stmt_types_gene_to_target |-> {"DecreaseAmount", "Inhibition"},
     stmt_types_target_to_gene |-> {"IncreaseAmount", "Activation"}]

pos_params(l) ==
    [target_id |-> l.target_id,
     gene_list |-> l.pos_genes,
     rel_types |-> l.rel_types,
     minimum_belief |-> l.minimum_belief,
     minimum_evidence |-> l.minimum_evidence,
     stmt_types_gene_to_target |-> {"DecreaseAmount", "Inhibition"},
     stmt_types_target_to_gene |-> {"IncreaseAmount", "Activation", "Complex"}]

neg_params(l) ==
    [target_id |-> l.target_id,
     gene_list |-> l.neg_genes,
     rel_types |-> l.rel_types,
     minimum_belief |-> l.minimum_belief,
     minimum_evidence |-> l.minimum_evidence,
     stmt_types_gene_to_target |-> {"IncreaseAmount", "Activation"},
     stmt_types_target_to_gene |-> {"DecreaseAmount", "Inhibition"}]

\* the call with deduplicate=False
signed_stmts_no_dedup(rels, policy) == indra_stmts_from_relations(rels, FALSE, policy)

\* stmts = indra_stmts_from_relations(flattened_rels, deduplicate=True)
signed_stmts(rels, policy) == indra_stmts_from_relations(rels, TRUE, policy)

\* search_signed_statements, up to the first store call of
\* get_signed_statements; the endpoint catches no exception, so a raise ends
\* the request as the framework's 500
search_signed_statements ==
    /\ pc = "idle"
    /\ \E target_id \in TargetArgs, positive_genes \in GeneLists,
          negative_genes \in NegativeGeneLists, me \in EvidenceArgs, mb \in BeliefArgs :
        LET minimum_evidence == NumDefault(me, 1)
            minimum_belief == NumDefault(mb, 0)
            a == [NoArgs EXCEPT !.target_id = target_id,
                                !.positive_genes = positive_genes,
                                !.negative_genes = negative_genes,
                                !.minimum_belief = minimum_belief.val,
                                !.minimum_evidence = minimum_evidence.val]
            l == signed_locals(a)
        IN /\ mode' = "signed"
           /\ invalid' = InvalidRequest(target_id, positive_genes \o negative_genes, me, mb)
           /\ unresolvable' = Unresolvable(positive_genes \o negative_genes)
           /\ IF ~minimum_evidence.ok \/ ~minimum_belief.ok
              THEN Finish(400, "Invalid parameter values") /\ UNCHANGED <<args, params>>
              ELSE IF ~Truthy(target_id) \/ (positive_genes = <<>> /\ negative_genes = <<>>)
              THEN Finish(400, "target_id and at least one gene list required")
                   /\ UNCHANGED <<args, params>>
              ELSE /\ args' = a
                   /\ IF split_raises(positive_genes) \/ split_raises(negative_genes)
                         \/ Len(target_id) < 2
                      THEN Finish(500, "IndexError") /\ params' = params
                      ELSE /\ params' = l
                           /\ response' = response
                           /\ pc' = IF l.pos_genes # <<>> THEN "signed_pos"
                                    ELSE IF l.neg_genes # <<>> THEN "signed_neg"
                                    ELSE "enrich"
    /\ UNCHANGED <<graph, queries, flattened_rels, stmts, evidence_counts, grounding>>

\* the targets and thresholds of a direct call
DirectTargets == {<<"FPLX", "d1">>, <<"GO", "d1">>}

\* get_signed_statements called by a caller other than the endpoint, which
\* may pass two empty gene lists; up to the first store call
get_signed_statements ==
    /\ pc = "idle"
    /\ \E target_id \in DirectTargets, positive_genes \in GeneLists,
          negative_genes \in NegativeGeneLists, minimum_evidence \in 0..MaxEv,
          minimum_belief \in {0, 5} :
        LET a == [NoArgs EXCEPT !.target_id = target_id,
                                !.positive_genes = positive_genes,
                                !.negative_genes = negative_genes,
                                !.minimum_belief = minimum_belief,
                                !.minimum_evidence = minimum_evidence]
            l == signed_locals(a)
        IN /\ mode' = "signed"
           /\ unresolvable' = Unresolvable(positive_genes \o negative_genes)
           /\ args' = a
           /\ IF split_raises(positive_genes) \/ split_raises(negative_genes)
              THEN Finish(500, "IndexError") /\ params' = params
              ELSE /\ params' = l
                   /\ response' = response
                   /\ pc' = IF l.pos_genes # <<>> THEN "signed_pos"
                            ELSE IF l.neg_genes # <<>> THEN "signed_neg"
                            ELSE "enrich"
    /\ UNCHANGED <<invalid, graph, queries, flattened_rels, stmts, evidence_counts,
                   grounding>>

\* if pos_genes: pos_results = client.query_tx(query, **pos_params), appended
signed_pos_query ==
    /\ pc = "signed_pos"
    /\ \E ok \in BOOLEAN :
        /\ queries' = Append(queries, Call("pos", pos_params(params), ok))
        /\ IF ok
           THEN \E g \in GraphAt(params.target_id) :
                  LET rels == append_rels(flattened_rels, signed_query(g, pos_params(params)))
                  IN /\ graph' = g
                     /\ IF params.neg_genes # <<>>
                        THEN /\ flattened_rels' = rels
                             /\ pc' = "signed_neg"
                             /\ UNCHANGED <<stmts, response>>
                        ELSE \E policy \in MalformedPolicies :
                                Assembled(rels, signed_stmts(rels, policy), 500)
           ELSE QueryFailed(500)
                /\ UNCHANGED <<graph, flattened_rels, stmts>>
    /\ UNCHANGED <<mode, invalid, unresolvable, args, params, evidence_counts, grounding>>

\* if neg_genes: neg_results = client.query_tx(query, **neg_params), appended;
\* then assembly
signed_neg_query ==
    /\ pc = "signed_neg"
    /\ \E ok \in BOOLEAN :
        /\ queries' = Append(queries, Call("neg", neg_params(params), ok))
        /\ IF ok
           THEN \E g \in GraphAt(params.target_id), policy \in MalformedPolicies :
                  LET rels == append_rels(flattened_rels, signed_query(g, neg_params(params)))
                  IN graph' = g /\ Assembled(rels, signed_stmts(rels, policy), 500)
           ELSE QueryFailed(500)
                /\ UNCHANGED <<graph, flattened_rels, stmts>>
    /\ UNCHANGED <<mode, invalid, unresolvable, args, params, evidence_counts, grounding>>

signed_enrich == mode = "signed" /\ Enrich(500)

\* ---------------------------------------------- get_metabolite_statements
\* str.isnumeric() of one colon-free part
IsNumeric(tok) == tok \in {"1", "2", "11998"}

\* analysis.metabolite_analysis.parse_metabolites: CHEBI:ID and bare numbers
\* give the id, every other entry is reported in errors
parse_metabolites(metabolites) ==
    LET good(e) == \/ Len(e) = 2 /\ LowerTok(e[1]) = "chebi"
                   \/ Len(e) = 1 /\ IsNumeric(e[1])
        ok == SelectSeq(metabolites, good)
    IN [chebi_ids |-> [i \in 1..Len(ok) |-> ok[i][Len(ok[i])]],
        errors |-> SelectSeq(metabolites, LAMBDA e : ~good(e))]

\* the locals of get_metabolite_statements before its first query
metabolite_params(a) ==
    LET parsed == parse_metabolites(a.metabolites)
    IN [target_id |-> IF Len(a.target_id) < 2 THEN <<"eccode">> \o a.target_id
                      ELSE a.target_id,
        metabolite_list |-> [i \in 1..Len(parsed.chebi_ids) |->
                                <<"chebi", LowerTok(parsed.chebi_ids[i])>>],
        errors |-> parsed.errors,
        minimum_belief |-> a.minimum_belief,
        minimum_evidence |-> a.minimum_evidence]

\* stmts = indra_stmts_from_relations(flattened_rels, deduplicate=True)
metabolite_stmts(rels, policy) == indra_stmts_from_relations(rels, TRUE, policy)

\* search_metabolite_statements, up to the discovery query
search_metabolite_statements ==
    /\ pc = "idle"
    /\ \E target_id \in TargetArgs, metabolites \in MetaboliteLists,
          me \in EvidenceArgs, mb \in BeliefArgs :
        LET minimum_evidence == NumDefault(me, 1)
            minimum_belief == NumDefault(mb, 0)
            a == [NoArgs EXCEPT !.target_id = target_id, !.metabolites = metabolites,
                                !.minimum_belief = minimum_belief.val,
                                !.minimum_evidence = minimum_evidence.val]
        IN /\ mode' = "metabolite"
           /\ invalid' = InvalidRequest(target_id, metabolites, me, mb)
           /\ unresolvable' = Unresolvable(metabolites)
           /\ IF ~minimum_evidence.ok \/ ~minimum_belief.ok
              THEN Finish(400, "Invalid parameter values") /\ UNCHANGED <<args, params>>
              ELSE IF ~Truthy(target_id) \/ metabolites = <<>>
              THEN Finish(400, "target_id and metabolites are required")
                   /\ UNCHANGED <<args, params>>
              ELSE /\ args' = a
                   /\ params' = metabolite_params(a)
                   /\ pc' = "metabolite_discovery"
                   /\ response' = response
    /\ UNCHANGED <<graph, queries, flattened_rels, stmts, evidence_counts, grounding>>

\* discovery_results = client.query_tx(discovery_query, metabolite_list=...):
\* its rows are only logged
metabolite_discovery_query ==
    /\ pc = "metabolite_discovery"
    /\ \E ok \in BOOLEAN :
        /\ queries' = Append(queries,
                             Call("discovery", [metabolite_list |-> params.metabolite_list], ok))
        /\ IF ok
           THEN \E g \in GraphAt(params.target_id) :
                  graph' = g /\ pc' = "metabolite_main" /\ response' = response
           ELSE QueryFailed(400) /\ graph' = graph
    /\ UNCHANGED <<mode, invalid, unresolvable, args, params, flattened_rels, stmts,
                   evidence_counts, grounding>>

\* results = client.query_tx(query, **params), flattening and assembly
metabolite_main_query ==
    /\ pc = "metabolite_main"
    /\ \E ok \in BOOLEAN :
        /\ queries' = Append(queries, Call("main", params, ok))
        /\ IF ok
           THEN \E policy \in MalformedPolicies :
                  LET rels == append_rels(<<>>, metabolite_query(graph, params))
                  IN Assembled(rels, metabolite_stmts(rels, policy), 400)
           ELSE QueryFailed(400) /\ UNCHANGED <<flattened_rels, stmts>>
    /\ UNCHANGED <<mode, invalid, unresolvable, args, params, graph, evidence_counts,
                   grounding>>

metabolite_enrich == mode = "metabolite" /\ Enrich(400)

\* ------------------------------------------ gene_blueprint.parse_genes_field
\* the records of a gene field: the entries between commas and blanks
GeneFields ==
    {<<>>,
     <<<<"HGNC", "1">>, <<"hgnc", "1">>>>,
     <<<<"HGNC", "1">>, <<"2">>, <<"TP53">>>>,
     <<<<"hgnc", "2">>, <<"NOSUCH">>>>,
     <<<<"NOSUCH">>, <<"TP53">>, <<"1">>>>}

\* hgnc_client.get_current_hgnc_id(symbol): None for an unknown symbol
get_current_hgnc_id(entry) == IF entry = <<"TP53">> THEN <<"11998">> ELSE None

\* the prefix test without lower(): entry.startswith("hgnc:")
entry_hgnc_id_case_sensitive(entry) ==
    IF Len(entry) >= 2 /\ entry[1] = "hgnc"
    THEN lower(Tail(entry))
    ELSE IF Len(entry) = 1 /\ IsNumeric(entry[1])
    THEN entry
    ELSE get_current_hgnc_id(entry)

\* the id one entry gives: the text after "hgnc:", the number itself, or the
\* id of the symbol; None sends the entry to errors
entry_hgnc_id(entry) ==
    IF Len(entry) >= 2 /\ LowerTok(entry[1]) = "hgnc"
    THEN lower(Tail(entry))
    ELSE IF Len(entry) = 1 /\ IsNumeric(entry[1])
    THEN entry
    ELSE get_current_hgnc_id(entry)

\* parse_genes_field: the keys of genes and the entries of errors
parse_genes_field(records) ==
    [genes |-> {entry_hgnc_id(e) : e \in {x \in Range(records) : entry_hgnc_id(x) # None}},
     errors |-> {e \in Range(records) : entry_hgnc_id(e) = None}]

\* discrete_analysis: genes, errors = parse_genes_field(genes); the analysis
\* returns its results with the errors
discrete_analysis ==
    /\ pc = "idle"
    /\ \E records \in GeneFields :
        /\ mode' = "discrete"
        /\ args' = [NoArgs EXCEPT !.genes = records]
        /\ params' = parse_genes_field(records)
        /\ unresolvable' = \E e \in Range(records) : entry_hgnc_id(e) = None
    /\ pc' = "done"
    /\ response' = Response(200, "", <<>>, <<>>)
    /\ UNCHANGED <<invalid, graph, queries, flattened_rels, stmts, evidence_counts,
                   grounding>>

\* --------------------------------------------------------- gilda_ground
\* data.get("agent") of the request payload
AgentTexts == {None, <<"">>, <<"tp53">>, <<"NOSUCH">>}

\* ground(agent_text) of the local library: the import fails, the call
\* raises, or it returns its matches (none for an unknown text)
LocalOutcomes == {"ImportError", "Exception", "matches"}

\* requests.post(...) and res.json() of the remote service: post raises
\* (service unreachable), the service answers an error with a JSON body,
\* answers an error with a body that is no JSON, or answers its matches
RemoteOutcomes == {"ConnectionError", "error_json", "error_not_json", "matches"}

\* the matches for a text, as JSON
Matches(agent_text) == IF agent_text = <<"tp53">> THEN "scored_matches" ELSE "no_matches"

\* gilda_ground_endpoint up to the call of gilda_ground
gilda_ground_endpoint ==
    /\ pc = "idle"
    /\ mode' = "ground"
    /\ \E agent_text \in AgentTexts :
        /\ args' = [NoArgs EXCEPT !.agent = agent_text]
        /\ IF ~Truthy(agent_text)
           THEN Finish(400, "Agent text is required.")
           ELSE pc' = "ground" /\ response' = response
    /\ UNCHANGED <<invalid, unresolvable, params, graph, queries, flattened_rels, stmts,
                   evidence_counts, grounding>>

\* the endpoint's return with what gilda_ground returned: jsonify(gilda_list)
Jsonify(result) ==
    /\ pc' = "done"
    /\ response' = Response(200, IF result = "error" THEN "Grounding failed" ELSE "",
                            <<>>, <<>>)

\* gilda_ground: the try block (import and local call) and its handlers
gilda_ground ==
    /\ pc = "ground"
    /\ \E outcome \in LocalOutcomes :
        IF outcome = "ImportError"
        THEN /\ grounding' = [grounding EXCEPT !.local = outcome]
             /\ pc' = "ground_remote"
             /\ response' = response
        ELSE LET result == IF outcome = "Exception" THEN "error"
                           ELSE Matches(args.agent)
             IN /\ grounding' = [grounding EXCEPT !.local = outcome, !.result = result]
                /\ Jsonify(result)
    /\ UNCHANGED <<mode, invalid, unresolvable, args, params, graph, queries,
                   flattened_rels, stmts, evidence_counts>>

\* the body of "except ImportError": the remote call.  What it raises is
\* raised inside a handler, so the "except Exception" next to it does not
\* catch it; the endpoint's own handler does.
gilda_ground_remote ==
    /\ pc = "ground_remote"
    /\ \E outcome \in RemoteOutcomes :
        IF outcome \in {"ConnectionError", "error_not_json"}
        THEN /\ grounding' = [grounding EXCEPT !.remote = outcome, !.raised = TRUE]
             /\ Finish(500, outcome)
        ELSE LET result == IF outcome = "error_json" THEN "service_error_body"
                           ELSE Matches(args.agent)
             IN /\ grounding' = [grounding EXCEPT !.remote = outcome, !.result = result]
                /\ Jsonify(result)
    /\ UNCHANGED <<mode, invalid, unresolvable, args, params, graph, queries,
                   flattened_rels, stmts, evidence_counts>>

Next ==
    \/ discrete_analysis
    \/ gilda_ground_endpoint
    \/ gilda_ground
    \/ gilda_ground_remote
    \/ search_ora_statements
    \/ ora_query_tx
    \/ ora_enrich
    \/ search_signed_statements
    \/ get_signed_statements
    \/ signed_pos_query
    \/ signed_neg_query
    \/ signed_enrich
    \/ search_metabolite_statements
    \/ metabolite_discovery_query
    \/ metabolite_main_query
    \/ metabolite_enrich

Spec == Init /\ [][Next]_vars

\* ------------------------------------------------------------ properties
Completed ==
    pc = "done" /\ response.status = 200 /\ mode \in {"ora", "signed", "metabolite"}

Hashes(ss) == {ss[i].hash : i \in 1..Len(ss)}

NoRepeatedHash(ss) == \A i, j \in 1..Len(ss) : ss[i].hash = ss[j].hash => i = j

\* the relations at two positions of flattened_rels carry one hash
RepeatedRelHash ==
    \E i, j \in 1..Len(flattened_rels) :
        i < j /\ RelHash(flattened_rels[i]) = RelHash(flattened_rels[j])

EveryRelHasHash ==
    \A i \in 1..Len(flattened_rels) : "stmt_hash" \in DOMAIN flattened_rels[i].data

\* C1: in every retrieval mode, whatever relations the store returned, no two
\* statements of the assembled and of the returned list have the same hash.
C1_NoDuplicateHashes == NoRepeatedHash(stmts) /\ NoRepeatedHash(response.stmts)

\* C1 witness: a signed retrieval returned its statements after the positive
\* and the negative query both returned a relation of one hash.
C1_Witness ==
    /\ Completed
    /\ mode = "signed"
    /\ \E i, j \in 1..Len(flattened_rels) :
          /\ i < j
          /\ RelHash(flattened_rels[i]) = RelHash(flattened_rels[j])
          /\ flattened_rels[i].data.stmt_type \in {"Inhibition", "Complex"}
          /\ flattened_rels[j].data.stmt_type \in {"Activation"}
          /\ Len(queries) = 3

\* C2: position by position, the relation and the statement that are paired
\* to build the evidence index carry the same hash (stated for results whose
\* relations all carry a hash).
C2_PairedHashesAgree ==
    (Completed /\ EveryRelHasHash) =>
        \A i \in 1..Min(Len(flattened_rels), Len(stmts)) :
            RelHash(flattened_rels[i]) = stmts[i].hash

\* C3: the keys of the returned evidence-count mapping are exactly the hashes
\* of the returned statements.
C3_IndexDomain ==
    Completed => DOMAIN response.evidence_count = Hashes(response.stmts)

\* C3 witness: a retrieval returned two statements assembled from three
\* relations.
C3_Witness ==
    /\ Completed
    /\ Len(response.stmts) = 2
    /\ Len(flattened_rels) = 3
    /\ RepeatedRelHash

\* the sign table of the specification
SignTable(polarity, direction) ==
    IF polarity = "positive"
    THEN (IF direction = "gene_to_target" THEN {"DecreaseAmount", "Inhibition"}
          ELSE {"IncreaseAmount", "Activation", "Complex"})
    ELSE (IF direction = "gene_to_target" THEN {"IncreaseAmount", "Activation"}
          ELSE {"DecreaseAmount", "Inhibition"})

Polarity(name) == IF name = "pos" THEN "positive" ELSE "negative"

\* a relation of a signed retrieval agrees with the table for one of the
\* polarities its gene was requested under
FollowsSignTable(r) ==
    LET to_target == r.target_id = params.target_id
        gene == IF to_target THEN r.source_id ELSE r.target_id
        direction == IF to_target THEN "gene_to_target" ELSE "target_to_gene"
        ty == Get(r.data, "stmt_type", "None")
    IN \/ gene \in Range(params.pos_genes) /\ ty \in SignTable("positive", direction)
       \/ gene \in Range(params.neg_genes) /\ ty \in SignTable("negative", direction)

\* C4: each signed query carries the statement types of the sign table for
\* its polarity, and every relation retained agrees with the table for its
\* polarity and direction.
C4_SignTable ==
    mode = "signed" =>
        /\ \A k \in 1..Len(queries) :
              queries[k].name \in {"pos", "neg"} =>
                  /\ queries[k].params.stmt_types_gene_to_target
                        = SignTable(Polarity(queries[k].name), "gene_to_target")
                  /\ queries[k].params.stmt_types_target_to_gene
                        = SignTable(Polarity(queries[k].name), "target_to_gene")
        /\ \A i \in 1..Len(flattened_rels) : FollowsSignTable(flattened_rels[i])

\* C4 witness: a signed retrieval kept a Complex relation from the target to
\* a positive gene and an Activation relation from a negative gene.
C4_Witness ==
    /\ mode = "signed"
    /\ pc = "enrich"
    /\ \E i, j \in 1..Len(flattened_rels) :
          /\ flattened_rels[i].data.stmt_type = "Complex"
          /\ flattened_rels[i].source_id = params.target_id
          /\ flattened_rels[j].data.stmt_type = "Activation"
          /\ flattened_rels[j].target_id = params.target_id

\* the extra relation label of the specification's table
ExtraLabel(namespace) ==
    CASE namespace = "mesh" -> {"has_indication"}
      [] namespace = "fplx" -> {"isa"}
      [] namespace = "chebi" -> {"has_metabolite"}
      [] OTHER -> {}

\* C5: every query of discrete and signed retrieval permits indra_rel plus
\* the extra label the table gives for the namespace of the requested target.
C5_LabelTable ==
    \A k \in 1..Len(queries) :
        queries[k].name \in {"ora", "pos", "neg"} =>
            queries[k].params.rel_types
                = {"indra_rel"} \cup ExtraLabel(LowerTok(args.target_id[1]))

\* the genes a discrete request names, as node ids
RequestedGenes == {<<"hgnc", args.genes[i][2]>> : i \in 1..Len(args.genes)}

\* C6: every relation of a discrete retrieval runs from the target to a
\* requested gene, or, when is_downstream is set, from a requested gene to
\* the target.
C6_OraDirection ==
    mode = "ora" =>
        \A i \in 1..Len(flattened_rels) :
            LET r == flattened_rels[i]
            IN IF args.is_downstream
               THEN r.source_id \in RequestedGenes /\ r.target_id = params.target_id
               ELSE r.source_id = params.target_id /\ r.target_id \in RequestedGenes

\* C6 witness: a downstream discrete retrieval kept a relation.
C6_Witness ==
    /\ mode = "ora"
    /\ args.is_downstream
    /\ pc = "enrich"
    /\ Len(flattened_rels) > 0
    /\ Len(args.genes) = 2

\* C7: a request without target, without query entities or with a number
\* that cannot be read ends with status 400 and issues no store call.
C7_InvalidParameter ==
    invalid => pc = "done" /\ response.status = 400 /\ queries = <<>>

\* C7 witness: a signed request with a target and genes, whose
\* minimum_evidence is no number, has been answered.
C7_Witness ==
    /\ invalid
    /\ pc = "done"
    /\ mode = "signed"
    /\ response.error = "Invalid parameter values"

\* C8: a batch with an entry that cannot be normalized is not aborted.
\* parse_genes_field puts every entry in exactly one of genes and errors; a
\* retrieval request with a well-formed target whose entity list holds an
\* entry without the NAMESPACE:ID form still goes on to query the store.
C8_BatchNotAborted ==
    /\ mode = "discrete" =>
          \A e \in Range(args.genes) :
              (entry_hgnc_id(e) # None /\ entry_hgnc_id(e) \in params.genes)
                  # (e \in params.errors)
    /\ (/\ mode \in {"ora", "signed", "metabolite"}
        /\ unresolvable
        /\ ~invalid
        /\ Len(args.target_id) = 2
        /\ pc = "done") => queries # <<>>

\* C9: a failed store call is the last call of the invocation, which ends
\* with an error response and neither statements nor index; no call is
\* issued twice.
C9_FailedQueryEndsInvocation ==
    /\ \A k \in 1..Len(queries) :
          ~queries[k].ok =>
              /\ k = Len(queries)
              /\ pc = "done"
              /\ response.status \in {400, 500}
              /\ response.stmts = <<>>
              /\ response.evidence_count = <<>>
              /\ evidence_counts = <<>>
    /\ \A j, k \in 1..Len(queries) : queries[j].name = queries[k].name => j = k

\* C9 witness: the positive query of a signed retrieval with negative genes
\* failed.
C9_Witness ==
    /\ mode = "signed"
    /\ Len(queries) = 1
    /\ queries[1].name = "pos"
    /\ ~queries[1].ok
    /\ params.neg_genes # <<>>
    /\ pc = "done"

\* a path that carries hash, belief and evidence count
WellFormed(p) == {"stmt_hash", "belief", "evidence_count"} \subseteq DOMAIN p.props

\* the relations the invocation's queries give on store content g
RelsOn(g) ==
    CASE mode = "ora" ->
            ora_evidence_filter(ora_flatten(ora_query(g, params)), args.minimum_evidence)
      [] mode = "signed" ->
            append_rels(
                IF params.pos_genes # <<>>
                THEN append_rels(<<>>, signed_query(g, pos_params(params))) ELSE <<>>,
                IF params.neg_genes # <<>>
                THEN signed_query(g, neg_params(params)) ELSE <<>>)
      [] OTHER -> append_rels(<<>>, metabolite_query(g, params))

StmtsOn(g) == enrich_statements(indra_stmts_from_relations(RelsOn(g), TRUE, "keep").stmts)

\* C10: when no store call fails, the retrieval completes and returns the
\* statements and the index of the store content without its malformed paths.
C10_MalformedPathSkipped ==
    (pc = "done" /\ queries # <<>> /\ \A k \in 1..Len(queries) : queries[k].ok) =>
        LET clean == SelectSeq(graph, WellFormed)
        IN /\ response.status = 200
           /\ response.stmts = StmtsOn(clean)
           /\ response.evidence_count = evidence_count_mapping(RelsOn(clean), StmtsOn(clean))

\* the relations the invocation's queries give on store content g when the
\* request states minimum_evidence n, all else equal
RelsAt(g, n) ==
    LET q == [params EXCEPT !.minimum_evidence = n]
    IN CASE mode = "ora" ->
               ora_evidence_filter(ora_flatten(ora_query(g, params)), n)
         [] mode = "signed" ->
               append_rels(
                   IF q.pos_genes # <<>>
                   THEN append_rels(<<>>, signed_query(g, pos_params(q))) ELSE <<>>,
                   IF q.neg_genes # <<>>
                   THEN signed_query(g, neg_params(q)) ELSE <<>>)
         [] OTHER -> append_rels(<<>>, metabolite_query(g, q))

HashesAt(g, n, policy) ==
    Hashes(indra_stmts_from_relations(RelsAt(g, n), TRUE, policy).stmts)

SameButPrefixCase(e1, e2) ==
    /\ Len(e1) = 2
    /\ Len(e2) = 2
    /\ LowerTok(e1[1]) = LowerTok(e2[1])
    /\ e1[2] = e2[2]

\* C12: gene references that differ only in the letter case of the prefix
\* get one normalized id, a batch of such references resolves to one gene,
\* and normalizing a normalized id gives it back; for parse_genes_field and
\* for the gene normalization of discrete and signed retrieval.
C12_NormalizationIdempotent ==
    /\ mode = "discrete" =>
          /\ \A e1, e2 \in Range(args.genes) :
                SameButPrefixCase(e1, e2) =>
                    /\ entry_hgnc_id(e1) = entry_hgnc_id(e2)
                    /\ entry_hgnc_id(e1) \in params.genes
          /\ (args.genes # <<>> /\ \A e1, e2 \in Range(args.genes) : SameButPrefixCase(e1, e2))
                => Cardinality(params.genes) = 1
          /\ \A g \in params.genes : entry_hgnc_id(g) = g
    /\ (mode = "ora" /\ "genes" \in DOMAIN params) =>
          /\ \A i, j \in 1..Len(args.genes) :
                SameButPrefixCase(args.genes[i], args.genes[j]) =>
                    params.genes[i] = params.genes[j]
          /\ (\A i, j \in 1..Len(args.genes) :
                 SameButPrefixCase(args.genes[i], args.genes[j]))
                => Cardinality(Range(params.genes)) = 1
          /\ normalize_genes(params.genes) = params.genes
    /\ (mode = "signed" /\ "pos_genes" \in DOMAIN params) =>
          /\ \A i, j \in 1..Len(args.positive_genes) :
                SameButPrefixCase(args.positive_genes[i], args.positive_genes[j]) =>
                    params.pos_genes[i] = params.pos_genes[j]
          /\ normalize_genes(params.pos_genes) = params.pos_genes
          /\ normalize_genes(params.neg_genes) = params.neg_genes

\* C12 witness: parse_genes_field was given HGNC:1 and hgnc:1 in one batch
\* and resolved one gene.
C12_Witness ==
    /\ mode = "discrete"
    /\ pc = "done"
    /\ args.genes = << <<"HGNC", "1">>, <<"hgnc", "1">> >>
    /\ params.genes = {<<"1">>}
    /\ params.errors = {}

\* the grounding lookup failed: the local call raised, or the library is
\* absent and the remote service is unreachable or answers an error
GroundingFailed ==
    \/ grounding.local = "Exception"
    \/ grounding.remote \in {"ConnectionError", "error_json", "error_not_json"}

\* C13: a failed grounding lookup ends as a structured error: no exception
\* leaves gilda_ground, and the endpoint answers with an error, never with
\* status 200.
C13_GroundingFailureStructured ==
    (mode = "ground" /\ pc = "done" /\ GroundingFailed) =>
        /\ ~grounding.raised
        /\ response.status # 200
        /\ response.error # ""

\* the relations of every path the store matched, in store output order
\* (discrete retrieval: before the grouping by hash)
StoreOutput ==
    IF mode = "ora"
    THEN LET matched == SelectSeq(graph, LAMBDA p : OraMatch(p, params))
         IN ora_evidence_filter([k \in 1..Len(matched) |-> neo4j_to_relation(matched[k])],
                                args.minimum_evidence)
    ELSE RelsOn(graph)

\* the first relation of rels that carries hash h
FirstWith(rels, h) ==
    rels[CHOOSE i \in 1..Len(rels) :
            /\ RelHash(rels[i]) = h
            /\ \A j \in 1..(i - 1) : RelHash(rels[j]) # h]

\* C14: the relation sequence paired with the statements has one entry per
\* returned statement, in the same order, each the first relation of its
\* hash in store output order (stated for results whose relations all carry
\* a hash).
C14_OneRelationPerStatement ==
    (Completed /\ EveryRelHasHash) =>
        /\ Len(flattened_rels) = Len(response.stmts)
        /\ \A i \in 1..Len(flattened_rels) :
              flattened_rels[i] = FirstWith(StoreOutput, response.stmts[i].hash)

\* C15: the target id of every graph query is the lowercase namespace:id of
\* the requested target: two non-empty lowercase parts, the same for every
\* letter case of the request.
C15_TargetLowercase ==
    \A k \in 1..Len(queries) :
        queries[k].name \in {"ora", "pos", "neg", "main"} =>
            LET t == queries[k].params.target_id
            IN /\ Len(t) = 2
               /\ t[1] # ""
               /\ t[2] # ""
               /\ lower(t) = t
               /\ Len(args.target_id) = 2 => t = lower(args.target_id)

\* the polarity whose sign table admits the relation (the tables of the two
\* polarities share no statement type in either direction)
RelPolarity(r) ==
    LET direction == IF r.target_id = params.target_id THEN "gene_to_target"
                     ELSE "target_to_gene"
    IN IF Get(r.data, "stmt_type", "None") \in SignTable("positive", direction)
       THEN "positive" ELSE "negative"

GraphQueries(name) == {k \in 1..Len(queries) : queries[k].name = name}

\* C16: signed retrieval issues at most one query per polarity and none for
\* an empty gene list, the positive query before the negative; the positive
\* relations precede the negative ones in flattened_rels; with both lists
\* empty it issues no graph query and returns no statement and an empty index.
C16_SignedQueryOrder ==
    (mode = "signed" /\ "pos_genes" \in DOMAIN params) =>
        /\ Cardinality(GraphQueries("pos")) <= (IF params.pos_genes = <<>> THEN 0 ELSE 1)
        /\ Cardinality(GraphQueries("neg")) <= (IF params.neg_genes = <<>> THEN 0 ELSE 1)
        /\ \A j \in GraphQueries("pos"), k \in GraphQueries("neg") : j < k
        /\ pc \in {"enrich", "done"} =>
              \/ \E k \in 1..Len(queries) : ~queries[k].ok
              \/ /\ Cardinality(GraphQueries("pos")) = (IF params.pos_genes = <<>> THEN 0 ELSE 1)
                 /\ Cardinality(GraphQueries("neg")) = (IF params.neg_genes = <<>> THEN 0 ELSE 1)
        /\ \A i, j \in 1..Len(flattened_rels) :
              (/\ RelPolarity(flattened_rels[i]) = "negative"
               /\ RelPolarity(flattened_rels[j]) = "positive") => j < i
        /\ (params.pos_genes = <<>> /\ params.neg_genes = <<>>) =>
              /\ \A k \in 1..Len(queries) : queries[k].name = "enrich"
              /\ flattened_rels = <<>>
              /\ stmts = <<>>
              /\ (pc = "done" /\ \A k \in 1..Len(queries) : queries[k].ok) =>
                    /\ response.status = 200
                    /\ response.stmts = <<>>
                    /\ DOMAIN response.evidence_count = {}

\* C16 witness: a signed retrieval ran both queries and holds a positive
\* relation followed by a negative one.
C16_Witness ==
    /\ mode = "signed"
    /\ pc = "enrich"
    /\ Len(queries) = 2
    /\ \E i, j \in 1..Len(flattened_rels) :
          /\ i < j
          /\ RelPolarity(flattened_rels[i]) = "positive"
          /\ RelPolarity(flattened_rels[j]) = "negative"
====
